---------------------------- MODULE Spec2Model ----------------------------
(***************************************************************************)
(* A model of the SQLite write-ahead-log reader of dissect.database        *)
(* (src/dissect/database/sqlite3/wal.py): the WAL object and its file      *)
(* handle, the frame stream, the grouping of frames into commits, the      *)
(* deduplication of commits into checkpoints, the page lookup of a frame   *)
(* collection and the checksum routine.                                    *)
(*                                                                         *)
(* A 32-bit unsigned integer is kept as its two 16-bit halves              *)
(* [hi |-> 0..65535, lo |-> 0..65535] (value hi * 2^16 + lo), so that the  *)
(* arithmetic modulo 2^32 of the checksum keeps its width.                 *)
(***************************************************************************)
EXTENDS Integers, Sequences, FiniteSets, TLC

VARIABLES
    file,         \* the WAL image on disk
    dbPageSize,   \* the page size of the main database the WAL belongs to
    src,          \* what the constructor is given: "path" or "handle"
    wal,          \* the WAL object (path, checksum_endian, construction outcome)
    fh,           \* the binary handle the WAL reads through
    closes,       \* bookkeeping of the close() calls made on the WAL
    listed,       \* the outcome of list(wal.frames())
    commits,      \* the cached_property WAL.commits
    checkpoints,  \* the cached_property WAL.checkpoints
    lookup,       \* the outcome of the last page lookup in a frame collection
    salted,       \* the outcome of the last Frame.validate_salt()
    vc,           \* the outcome of the last Frame.validate_checksum()
    cs            \* input and outcome of a direct call of the checksum routine

vars == <<file, dbPageSize, src, wal, fh, closes, listed, commits, checkpoints,
          lookup, salted, vc, cs>>

-----------------------------------------------------------------------------
(* Program constants.                                                      *)

WAL_HEADER_MAGIC_LE == 931071618     \* 0x377F0682
WAL_HEADER_MAGIC_BE == 931071619     \* 0x377F0683
WAL_HEADER_MAGIC == {WAL_HEADER_MAGIC_LE, WAL_HEADER_MAGIC_BE}

\* len(c_sqlite3.wal_header) and len(c_sqlite3.wal_frame)
WalHeaderSize == 32
WalFrameSize == 24
\* wal_hdr_bytes[:24], frame_hdr_bytes[:8]
HeaderSeedBytes == 24
FrameSeedBytes == 8

-----------------------------------------------------------------------------
(* Bounds of the model.                                                    *)

MaxFrames == 3        \* frames in an image of the grouping specification
MaxWords == 4         \* 32-bit words in a buffer given to the checksum routine
MaxCloses == 3        \* close() calls on one WAL
PagePairs == 1        \* the page size of the images, in units of 8 bytes

-----------------------------------------------------------------------------
(* 32-bit words and bytes.                                                 *)

Half == 65536

Word(hi, lo) == [hi |-> hi, lo |-> lo]
ZeroWord == Word(0, 0)
\* a small integer as a 32-bit word
ToWord(n) == Word(n \div Half, n % Half)

IsWord(w) == w.hi \in 0..(Half - 1) /\ w.lo \in 0..(Half - 1)

\* (a + (b + c)) & 0xFFFFFFFF
Add3Mask32(a, b, c) ==
    LET lo == a.lo + (b.lo + c.lo)
        hi == a.hi + (b.hi + c.hi) + (lo \div Half)
    IN  Word(hi % Half, lo % Half)

\* struct.unpack of one "I" item: four bytes in the byte order `endian`
UnpackI(endian, b) ==
    IF endian = "<"
    THEN Word(b[4] * 256 + b[3], b[2] * 256 + b[1])
    ELSE Word(b[1] * 256 + b[2], b[3] * 256 + b[4])

\* the big-endian four bytes of a 32-bit field, as cstruct dumps them
PackBE(w) == <<w.hi \div 256, w.hi % 256, w.lo \div 256, w.lo % 256>>

RECURSIVE Zeros(_)
Zeros(n) == IF n <= 0 THEN <<>> ELSE <<0>> \o Zeros(n - 1)

-----------------------------------------------------------------------------
(* Python values that reach the checksum routine.                          *)

PyBytes(b) == [type |-> "bytes", val |-> b]
PyTuple(s0, s1) == [type |-> "tuple", val |-> <<s0, s1>>]
PyFrame == [type |-> "Frame", val |-> <<>>]

Raised(e) == [kind |-> e, s0 |-> ZeroWord, s1 |-> ZeroWord]
Returned(s0, s1) == [kind |-> "ok", s0 |-> s0, s1 |-> s1]

\* arr = struct.unpack(f"{endian}{num_ints}I", buf)
UnpackWords(endian, buf) ==
    [i \in 1..(Len(buf) \div 4) |-> UnpackI(endian, SubSeq(buf, 4 * i - 3, 4 * i))]

RECURSIVE ChecksumLoopStale(_, _, _, _)
\* a loop whose second sum adds the s0 of before the step
ChecksumLoopStale(arr, int_num, s0, s1) ==
    IF int_num >= Len(arr) THEN Returned(s0, s1)
    ELSE LET n0 == Add3Mask32(s0, arr[int_num + 1], s1)
         IN  IF int_num + 1 >= Len(arr) THEN Raised("IndexError")
             ELSE LET n1 == Add3Mask32(s1, arr[int_num + 2], s0)
                  IN  ChecksumLoopStale(arr, int_num + 2, n0, n1)

\* for int_num in range(0, num_ints, 2): ...   (arr is indexed from 0 in the code)
RECURSIVE ChecksumLoop(_, _, _, _)
ChecksumLoop(arr, int_num, s0, s1) ==
    IF int_num >= Len(arr) THEN Returned(s0, s1)
    ELSE LET n0 == Add3Mask32(s0, arr[int_num + 1], s1)
         IN  IF int_num + 1 >= Len(arr) THEN Raised("IndexError")
             ELSE LET n1 == Add3Mask32(s1, arr[int_num + 2], n0)
                  IN  ChecksumLoop(arr, int_num + 2, n0, n1)

\* Frame.calculate_checksum(buf, seed, endian), the plain function
calculate_checksum(buf, seed, endian) ==
    IF Len(seed.val) # 2 THEN Raised("ValueError")          \* s0, s1 = seed
    ELSE IF buf.type # "bytes" THEN Raised("TypeError")     \* len(buf)
    ELSE IF Len(buf.val) % 4 # 0 THEN Raised("struct.error")
    ELSE LET s0 == IF seed.type = "tuple" THEN seed.val[1] ELSE ToWord(seed.val[1])
             s1 == IF seed.type = "tuple" THEN seed.val[2] ELSE ToWord(seed.val[2])
         IN  ChecksumLoop(UnpackWords(endian, buf.val), 0, s0, s1)

-----------------------------------------------------------------------------
(* The WAL image.  An image is its header (hdrLen bytes of it are present, *)
(* 32 for a whole header), the frames whose 24-byte header is wholly       *)
(* present, each with the page bytes that follow it in the file (fewer     *)
(* than page_size only for the last one), and `tail`, the number of bytes  *)
(* (under 24) of a frame header cut short at the end of the file.          *)

RECURSIVE StartOf(_, _)
\* the file offset of the k-th frame record of the image (k from 1)
StartOf(f, k) ==
    IF k = 1 THEN f.hdrLen
    ELSE StartOf(f, k - 1) + WalFrameSize + Len(f.frames[k - 1].data)

FileSize(f) == StartOf(f, Len(f.frames) + 1) + f.tail

\* the fields of c_sqlite3.wal_frame
FrameHeader(r) ==
    [page_number |-> r.page_number, page_count |-> r.page_count,
     salt1 |-> r.salt1, salt2 |-> r.salt2,
     checksum1 |-> r.checksum1, checksum2 |-> r.checksum2]

\* the big-endian bytes of a frame header, as they lie in the file
FrameHeaderBytes(r) ==
    PackBE(ToWord(r.page_number)) \o PackBE(ToWord(r.page_count))
    \o PackBE(ToWord(r.salt1)) \o PackBE(ToWord(r.salt2))
    \o PackBE(r.checksum1) \o PackBE(r.checksum2)

\* self.wal.header.dumps(): the 32 bytes of the WAL header; the fields the
\* images leave at zero are the format version, the checkpoint sequence and
\* the header's own checksum
WalHeaderBytes(h) ==
    PackBE(ToWord(h.magic)) \o Zeros(4) \o PackBE(ToWord(h.page_size)) \o Zeros(4)
    \o PackBE(ToWord(h.salt1)) \o PackBE(ToWord(h.salt2)) \o Zeros(8)

\* fh.seek(offset); fh.read(n): a read at or past the end returns fewer bytes
RecordAt(f, offset) == CHOOSE k \in 1..Len(f.frames) : StartOf(f, k) = offset
HasRecordAt(f, offset) == \E k \in 1..Len(f.frames) : StartOf(f, k) = offset

NoHeader == [page_number |-> 0, page_count |-> 0, salt1 |-> 0, salt2 |-> 0,
             checksum1 |-> ZeroWord, checksum2 |-> ZeroWord]
EOFError == [eof |-> TRUE, offset |-> 0, header |-> NoHeader]

\* Frame.__init__: seek to the offset and parse a wal_frame there; cstruct
\* raises EOFError when fewer than len(wal_frame) bytes are left
NewFrame(f, offset) ==
    IF offset + WalFrameSize > FileSize(f) \/ ~HasRecordAt(f, offset)
    THEN EOFError
    ELSE [eof |-> FALSE, offset |-> offset,
          header |-> FrameHeader(f.frames[RecordAt(f, offset)])]

\* Frame.data: seek past the frame header and read page_size bytes
FrameData(f, frame) ==
    LET d == f.frames[RecordAt(f, frame.offset)].data
    IN  SubSeq(d, 1, IF Len(d) < f.hdr.page_size THEN Len(d) ELSE f.hdr.page_size)

\* WAL.frame(frame_idx)
WalFrame(f, frame_idx) ==
    LET frame_size == WalFrameSize + f.hdr.page_size
        offset == WalHeaderSize + frame_idx * frame_size
    IN  NewFrame(f, offset)

RECURSIVE FramesLoop(_, _)
\* WAL.frames(), run to its end: the frames it yields, in order
FramesLoop(f, frame_idx) ==
    LET fr == WalFrame(f, frame_idx)
    IN  IF fr.eof THEN <<>>
        ELSE <<fr>> \o FramesLoop(f, frame_idx + 1)

WalFrames(f) == FramesLoop(f, 0)

\* a Commit / Checkpoint object: _FrameCollection.__init__
FrameCollection(frames) == [frames |-> frames]

\* a commit test that takes every frame for a committing one
IsCommitFrameAny(frame) == frame.header.page_count >= 0

\* if frame.page_count > 0
IsCommitFrame(frame) == frame.header.page_count > 0

RECURSIVE CommitsLoop(_, _, _, _)
\* the for loop of WAL.commits over the frames of frames()
CommitsLoop(fs, i, buffer, out) ==
    IF i > Len(fs) THEN [done |-> TRUE, val |-> out, leftover |-> Len(buffer)]
    ELSE LET frames == Append(buffer, fs[i])
         IN  IF IsCommitFrame(fs[i])
             THEN CommitsLoop(fs, i + 1, <<>>, Append(out, FrameCollection(frames)))
             ELSE CommitsLoop(fs, i + 1, frames, out)

\* WAL.commits
WalCommits(f) == CommitsLoop(WalFrames(f), 1, <<>>, <<>>)

\* checkpoints_map[salt1] = commit, on a dict kept as its items in insertion order
DictSet(d, key, value) ==
    IF \E i \in 1..Len(d) : d[i].key = key
    THEN [i \in 1..Len(d) |-> IF d[i].key = key THEN [key |-> key, value |-> value]
                                                ELSE d[i]]
    ELSE Append(d, [key |-> key, value |-> value])

DictGet(d, key) == d[CHOOSE i \in 1..Len(d) : d[i].key = key].value
DictHas(d, key) == \E i \in 1..Len(d) : d[i].key = key

RECURSIVE InsertSorted(_, _)
InsertSorted(s, x) ==
    IF s = <<>> THEN <<x>>
    ELSE IF x < Head(s) THEN <<x>> \o s
    ELSE <<Head(s)>> \o InsertSorted(Tail(s), x)

RECURSIVE SortedKeys(_, _)
\* sorted(checkpoints_map.keys())
SortedKeys(d, i) ==
    IF i > Len(d) THEN <<>>
    ELSE InsertSorted(SortedKeys(d, i + 1), d[i].key)

\* the key a commit is filed under: commit.frames[0].header.salt1
CheckpointKey(commit) == commit.frames[1].header.salt1

RECURSIVE CheckpointsLoopKeepFirst(_, _, _)
\* a loop that keeps the earlier commit when two commits share a salt1
CheckpointsLoopKeepFirst(cms, i, checkpoints_map) ==
    IF i > Len(cms) THEN checkpoints_map
    ELSE IF cms[i].frames = <<>> \/ DictHas(checkpoints_map, CheckpointKey(cms[i]))
    THEN CheckpointsLoopKeepFirst(cms, i + 1, checkpoints_map)
    ELSE CheckpointsLoopKeepFirst(cms, i + 1,
                                  DictSet(checkpoints_map, CheckpointKey(cms[i]), cms[i]))

RECURSIVE CheckpointsLoop(_, _, _)
\* the for loop of WAL.checkpoints over self.commits
CheckpointsLoop(cms, i, checkpoints_map) ==
    IF i > Len(cms) THEN checkpoints_map
    ELSE IF cms[i].frames = <<>> THEN CheckpointsLoop(cms, i + 1, checkpoints_map)
    ELSE CheckpointsLoop(cms, i + 1,
                         DictSet(checkpoints_map, CheckpointKey(cms[i]), cms[i]))

\* the keys in the order of their insertion, unsorted
CheckpointOrderUnsorted(checkpoints_map) ==
    [i \in 1..Len(checkpoints_map) |-> checkpoints_map[i].key]

\* the order in which WAL.checkpoints returns the keys of checkpoints_map
CheckpointOrder(checkpoints_map) == SortedKeys(checkpoints_map, 1)

\* WAL.checkpoints, given the value of self.commits
WalCheckpoints(cms) ==
    LET checkpoints_map == CheckpointsLoop(cms, 1, <<>>)
        keys == CheckpointOrder(checkpoints_map)
    IN  [i \in 1..Len(keys) |-> DictGet(checkpoints_map, keys[i])]

\* a salt check that compares salt2 alone
validate_salt2_only(frame, hdr) == frame.header.salt2 = hdr.salt2

\* Frame.validate_salt()
validate_salt(frame, hdr) ==
    LET salt1_match == frame.header.salt1 = hdr.salt1
        salt2_match == frame.header.salt2 = hdr.salt2
    IN  salt1_match /\ salt2_match

RECURSIVE PageMapLoopKeepFirst(_, _, _)
\* a page map in which the first frame of a page wins
PageMapLoopKeepFirst(frames, i, d) ==
    IF i > Len(frames) THEN d
    ELSE IF DictHas(d, frames[i].header.page_number)
    THEN PageMapLoopKeepFirst(frames, i + 1, d)
    ELSE PageMapLoopKeepFirst(frames, i + 1,
                              DictSet(d, frames[i].header.page_number, frames[i]))

RECURSIVE PageMapLoop(_, _, _)
\* _FrameCollection.page_map: {frame.page_number: frame for frame in self.frames}
PageMapLoop(frames, i, d) ==
    IF i > Len(frames) THEN d
    ELSE PageMapLoop(frames, i + 1, DictSet(d, frames[i].header.page_number, frames[i]))

page_map(coll) == PageMapLoop(coll.frames, 1, <<>>)

\* _FrameCollection.__contains__, __getitem__ and get (default None)
Contains(coll, page) == DictHas(page_map(coll), page)
GetItem(coll, page) ==
    IF DictHas(page_map(coll), page)
    THEN [kind |-> "frame", frame |-> DictGet(page_map(coll), page)]
    ELSE [kind |-> "KeyError", frame |-> EOFError]
Get(coll, page) ==
    IF DictHas(page_map(coll), page)
    THEN [kind |-> "frame", frame |-> DictGet(page_map(coll), page)]
    ELSE [kind |-> "default", frame |-> EOFError]

-----------------------------------------------------------------------------
(* Frame.validate_checksum().                                              *)

RECURSIVE RecordBytes(_, _)
\* the bytes of the frame records of the image from the k-th on
RecordBytes(f, k) ==
    IF k > Len(f.frames) THEN <<>>
    ELSE FrameHeaderBytes(f.frames[k]) \o f.frames[k].data \o RecordBytes(f, k + 1)

\* the image as the bytes of the file
FileBytes(f) ==
    SubSeq(WalHeaderBytes(f.hdr), 1, f.hdrLen) \o RecordBytes(f, 1) \o Zeros(f.tail)

\* fh.seek(offset); fh.read(n)
ReadAt(f, offset, n) ==
    LET bytes == FileBytes(f)
        stop == IF offset + n < Len(bytes) THEN offset + n ELSE Len(bytes)
    IN  SubSeq(bytes, offset + 1, stop)

\* self.calculate_checksum(*positional, seed=seed_kw, endian=endian): the
\* function takes no self, so the frame itself is bound to its first
\* parameter buf and the first positional argument to seed
MethodCall(self, positional, has_seed_kw, seed_kw, endian) ==
    LET args == <<self>> \o positional
    IN  IF Len(args) >= 2 /\ has_seed_kw
        THEN Raised("TypeError")     \* got multiple values for argument 'seed'
        ELSE calculate_checksum(args[1],
                                IF Len(args) >= 2 THEN args[2] ELSE seed_kw,
                                endian)

DefaultSeed == PyTuple(ZeroWord, ZeroWord)
VcRaised(e) == [kind |-> e, result |-> FALSE]
VcReturned(b) == [kind |-> "ok", result |-> b]

RECURSIVE ValidateLoop(_, _, _, _, _, _)
\* while offset <= self.offset: ...
ValidateLoop(f, endian, frame, offset, seed, checksum_match) ==
    IF ~(offset <= frame.offset) THEN VcReturned(checksum_match)
    ELSE
    LET frame_size == WalFrameSize + f.hdr.page_size
        frame_hdr_bytes == ReadAt(f, offset, WalFrameSize)
    IN  IF Len(frame_hdr_bytes) < WalFrameSize THEN VcRaised("EOFError")
        ELSE
        LET seed1 == MethodCall(PyFrame,
                                <<PyBytes(SubSeq(frame_hdr_bytes, 1, FrameSeedBytes))>>,
                                TRUE, PyTuple(seed.s0, seed.s1), endian)
        IN  IF seed1.kind # "ok" THEN VcRaised(seed1.kind)
            ELSE
            LET page_data == ReadAt(f, offset + WalFrameSize, f.hdr.page_size)
            IN  IF Len(page_data) < f.hdr.page_size THEN VcRaised("EOFError")
                ELSE
                LET seed2 == MethodCall(PyFrame, <<PyBytes(page_data)>>, TRUE,
                                        PyTuple(seed1.s0, seed1.s1), endian)
                IN  IF seed2.kind # "ok" THEN VcRaised(seed2.kind)
                    ELSE ValidateLoop(f, endian, frame, offset + frame_size, seed2,
                                      /\ seed2.s0 = frame.header.checksum1
                                      /\ seed2.s1 = frame.header.checksum2)

\* Frame.validate_checksum()
validate_checksum(f, endian, frame) ==
    LET wal_hdr_bytes == WalHeaderBytes(f.hdr)
    IN  IF Len(wal_hdr_bytes) < WalHeaderSize THEN VcRaised("EOFError")
        ELSE
        LET seed == MethodCall(PyFrame,
                               <<PyBytes(SubSeq(wal_hdr_bytes, 1, HeaderSeedBytes))>>,
                               FALSE, DefaultSeed, endian)
        IN  IF seed.kind # "ok" THEN VcRaised(seed.kind)
            ELSE ValidateLoop(f, endian, frame, WalHeaderSize, seed, FALSE)

-----------------------------------------------------------------------------
(* Construction and close of a WAL.                                        *)

\* path.open("rb") and fh.close() of a Python binary file
FileOpen(h) == [h EXCEPT !.opened = TRUE]
FileClose(h) == [h EXCEPT !.closed = TRUE]

\* WAL.__init__(fh): the WAL object, or the error it raises
WalInit(source, f, h) ==
    LET path == IF source = "path" THEN "sidecar" ELSE "none"
        magic_ok == f.hdr.magic \in WAL_HEADER_MAGIC
    IN  IF h.closed
        THEN [state |-> "ValueError", path |-> path, checksum_endian |-> "unset"]
        ELSE IF f.hdrLen < WalHeaderSize
        THEN [state |-> "EOFError", path |-> path, checksum_endian |-> "unset"]
        ELSE IF ~magic_ok
        THEN [state |-> "InvalidDatabase", path |-> path, checksum_endian |-> "unset"]
        ELSE [state |-> "ok", path |-> path,
              checksum_endian |-> IF f.hdr.magic = WAL_HEADER_MAGIC_LE THEN "<" ELSE ">"]

\* a close that closes a handle the WAL was only lent
ClosesAnyHandle(w) == TRUE

\* if self.path is not None
ClosesHandle(w) == w.path # "none"

\* WAL.close(): the handle after the call
WalClose(w, h) == IF ClosesHandle(w) THEN FileClose(h) ELSE h

-----------------------------------------------------------------------------
(* Values that play no part in a specification.                            *)

NoFile == [hdrLen |-> 0, hdr |-> [magic |-> 0, page_size |-> 0, salt1 |-> 0, salt2 |-> 0],
           frames |-> <<>>, tail |-> 0]
NoWal == [state |-> "new", path |-> "none", checksum_endian |-> "unset"]
NoFh == [opened |-> FALSE, closed |-> FALSE]
NoCloses == [calls |-> 0, byWal |-> 0, changedAgain |-> FALSE]
NotListed == [done |-> FALSE, frames |-> <<>>, data |-> <<>>, err |-> "none"]
NotCached == [done |-> FALSE, val |-> <<>>, leftover |-> 0]
NotComputed == [done |-> FALSE, val |-> <<>>]
NoLookup == [done |-> FALSE, kind |-> "none", index |-> 0, page |-> 0, contains |-> FALSE,
             getitem |-> [kind |-> "none", frame |-> EOFError],
             get |-> [kind |-> "none", frame |-> EOFError]]
NoSalted == [done |-> FALSE, commit |-> 0, index |-> 0, result |-> FALSE]
NoVc == [done |-> FALSE, index |-> 0, kind |-> "none", result |-> FALSE]
NoCs == [done |-> FALSE, buf |-> <<>>, s0 |-> ZeroWord, s1 |-> ZeroWord, endian |-> ">",
         out |-> Raised("none")]

-----------------------------------------------------------------------------
(* The checksum routine called directly on a buffer.                       *)

SeedWords == {ZeroWord, Word(0, 1), Word(65535, 65535), Word(32768, 0)}
BufWords == {<<0, 0, 0, 0>>, <<0, 0, 0, 1>>, <<255, 255, 255, 255>>, <<1, 2, 3, 4>>}
Endians == {"<", ">"}

RECURSIVE Buffers(_)
\* the buffers of n words
Buffers(n) ==
    IF n = 0 THEN {<<>>}
    ELSE {b \o w : b \in Buffers(n - 1), w \in BufWords}

ChecksumInputs ==
    UNION {Buffers(n) : n \in 0..MaxWords} \cup {<<0>>, <<0, 0, 0, 0, 255>>}

InitChecksum ==
    /\ file = NoFile /\ dbPageSize = 0 /\ src = "handle" /\ wal = NoWal /\ fh = NoFh
    /\ closes = NoCloses /\ listed = NotListed /\ commits = NotCached
    /\ checkpoints = NotComputed /\ lookup = NoLookup /\ salted = NoSalted /\ vc = NoVc
    /\ \E buf \in ChecksumInputs, s0 \in SeedWords, s1 \in SeedWords, e \in Endians :
          cs = [done |-> FALSE, buf |-> buf, s0 |-> s0, s1 |-> s1, endian |-> e,
                out |-> Raised("none")]

CalculateChecksum ==
    /\ ~cs.done
    /\ cs' = [cs EXCEPT !.done = TRUE,
                        !.out = calculate_checksum(PyBytes(cs.buf), PyTuple(cs.s0, cs.s1),
                                                   cs.endian)]
    /\ UNCHANGED <<file, dbPageSize, src, wal, fh, closes, listed, commits, checkpoints,
                   lookup, salted, vc>>

NextChecksum == CalculateChecksum

SpecChecksum == InitChecksum /\ [][NextChecksum]_vars

-----------------------------------------------------------------------------
(* Images of a constructed WAL.                                            *)

PageSize == 8 * PagePairs

\* the salts a frame can carry: those of the current WAL header, and those
\* of earlier generations of the WAL that a restart left behind
SaltPairs == {<<1, 1>>, <<2, 1>>, <<3, 2>>}
PageCounts == {0, 2}

FrameRec(pn, pc, salt, c1, c2, data) ==
    [page_number |-> pn, page_count |-> pc, salt1 |-> salt[1], salt2 |-> salt[2],
     checksum1 |-> c1, checksum2 |-> c2, data |-> data]

GroupingRecs(pages) ==
    {FrameRec(pn, pc, salt, ZeroWord, ZeroWord, Zeros(PageSize)) :
        pn \in pages, pc \in PageCounts, salt \in SaltPairs}

RECURSIVE RecSeqs(_, _)
\* the sequences of n frame records drawn from recs
RecSeqs(recs, n) ==
    IF n = 0 THEN {<<>>}
    ELSE {Append(fs, r) : fs \in RecSeqs(recs, n - 1), r \in recs}

\* the same records with the page of the last one cut to `len` bytes
CutLast(fs, len) ==
    [i \in 1..Len(fs) |-> IF i = Len(fs) THEN [fs[i] EXCEPT !.data = Zeros(len)]
                                         ELSE fs[i]]

Image(hdr, fs, tail) == [hdrLen |-> WalHeaderSize, hdr |-> hdr, frames |-> fs, tail |-> tail]

\* whole frames, then nothing, a frame header cut short, or a last page cut short
Images(hdr, recs) ==
    LET whole == UNION {RecSeqs(recs, n) : n \in 0..MaxFrames}
    IN  {Image(hdr, fs, tail) : fs \in whole, tail \in {0, WalFrameSize - 1}}
        \cup {Image(hdr, CutLast(fs, len), 0) :
                 fs \in whole \ {<<>>}, len \in {0, PageSize - 1}}

OpenWal(endian) == [state |-> "ok", path |-> "none", checksum_endian |-> endian]
OpenFh == [opened |-> TRUE, closed |-> FALSE]

GroupingHeader ==
    [magic |-> WAL_HEADER_MAGIC_BE, page_size |-> PageSize, salt1 |-> 2, salt2 |-> 1]

Init ==
    /\ file \in Images(GroupingHeader, GroupingRecs({1}))
    /\ dbPageSize = PageSize /\ src = "handle" /\ wal = OpenWal(">") /\ fh = OpenFh
    /\ closes = NoCloses /\ listed = NotListed /\ commits = NotCached
    /\ checkpoints = NotComputed /\ lookup = NoLookup /\ salted = NoSalted /\ vc = NoVc
    /\ cs = NoCs

\* list(wal.frames()), and the page data of each frame it yields; the reads
\* of a closed handle raise ValueError
ListFrames ==
    /\ wal.state = "ok"
    /\ listed' = (IF fh.closed
                  THEN [done |-> TRUE, frames |-> <<>>, data |-> <<>>, err |-> "ValueError"]
                  ELSE LET fs == WalFrames(file)
                       IN  [done |-> TRUE, frames |-> fs,
                            data |-> [i \in 1..Len(fs) |-> FrameData(file, fs[i])],
                            err |-> "none"])
    /\ UNCHANGED <<file, dbPageSize, src, wal, fh, closes, commits, checkpoints, lookup,
                   salted, vc, cs>>

\* the first read of wal.commits
Commits ==
    /\ ~commits.done
    /\ commits' = WalCommits(file)
    /\ UNCHANGED <<file, dbPageSize, src, wal, fh, closes, listed, checkpoints, lookup,
                   salted, vc, cs>>

\* the first read of wal.checkpoints, which reads wal.commits
Checkpoints ==
    /\ ~checkpoints.done
    /\ commits' = (IF commits.done THEN commits ELSE WalCommits(file))
    /\ checkpoints' = [done |-> TRUE, val |-> WalCheckpoints(commits'.val)]
    /\ UNCHANGED <<file, dbPageSize, src, wal, fh, closes, listed, lookup, salted, vc, cs>>

\* frame.validate_salt() on a frame of a commit
ValidateSalt ==
    /\ commits.done
    /\ \E c \in 1..Len(commits.val) : \E i \in 1..Len(commits.val[c].frames) :
          salted' = [done |-> TRUE, commit |-> c, index |-> i,
                     result |-> validate_salt(commits.val[c].frames[i], file.hdr)]
    /\ UNCHANGED <<file, dbPageSize, src, wal, fh, closes, listed, commits, checkpoints,
                   lookup, vc, cs>>

Next == ListFrames \/ Commits \/ Checkpoints \/ ValidateSalt

Spec == Init /\ [][Next]_vars

-----------------------------------------------------------------------------
(* Properties of the frame stream, the commits and the checkpoints.        *)

\* the salt1 of the first frame of a commit or checkpoint
FirstSalt1(c) == c.frames[1].header.salt1

\* C1: the list WAL.checkpoints returns is strictly ascending by the salt1 of
\* each element's first frame, so no two of its elements share a salt1.
C1_CheckpointsAscending ==
    checkpoints.done =>
        \A i \in 1..Len(checkpoints.val) : \A j \in 1..Len(checkpoints.val) :
            i < j => FirstSalt1(checkpoints.val[i]) < FirstSalt1(checkpoints.val[j])

\* Checkpoints were computed from commits that come in descending salt1 order
\* and of which two share a salt1.
C1_Witness ==
    /\ checkpoints.done
    /\ Len(checkpoints.val) >= 2
    /\ Len(commits.val) > Len(checkpoints.val)
    /\ FirstSalt1(commits.val[1]) > FirstSalt1(commits.val[2])

\* the index in WAL.commits of the last commit whose first frame has salt1 = s
LastCommitWith(s) ==
    CHOOSE i \in 1..Len(commits.val) :
        /\ FirstSalt1(commits.val[i]) = s
        /\ \A j \in 1..Len(commits.val) : FirstSalt1(commits.val[j]) = s => j <= i

\* C2: for every salt1 value s that begins a commit, WAL.checkpoints holds
\* exactly one element for s, and it is the commit latest in file order among
\* those beginning with s; every element of the list is one of WAL.commits.
C2_LaterCommitWins ==
    checkpoints.done =>
        /\ \A c \in 1..Len(commits.val) :
              LET s == FirstSalt1(commits.val[c])
                  at == {k \in 1..Len(checkpoints.val) : FirstSalt1(checkpoints.val[k]) = s}
              IN  /\ Cardinality(at) = 1
                  /\ \A k \in at : checkpoints.val[k] = commits.val[LastCommitWith(s)]
        /\ \A k \in 1..Len(checkpoints.val) :
              \E c \in 1..Len(commits.val) : checkpoints.val[k] = commits.val[c]

\* Two different commits begin with the same salt1 and the checkpoints were computed.
C2_Witness ==
    /\ checkpoints.done
    /\ \E a \in 1..Len(commits.val) : \E b \in 1..Len(commits.val) :
          /\ a < b
          /\ FirstSalt1(commits.val[a]) = FirstSalt1(commits.val[b])
          /\ commits.val[a] # commits.val[b]

RECURSIVE Concat(_, _)
\* the frames of the commits from the i-th on, one after the other
Concat(cms, i) == IF i > Len(cms) THEN <<>> ELSE cms[i].frames \o Concat(cms, i + 1)

\* the index in the frame stream of the last frame with page_count > 0 (0 if none)
LastCommitting(fs) ==
    IF \E i \in 1..Len(fs) : fs[i].header.page_count > 0
    THEN CHOOSE i \in 1..Len(fs) :
            /\ fs[i].header.page_count > 0
            /\ \A j \in 1..Len(fs) : fs[j].header.page_count > 0 => j <= i
    ELSE 0

\* C3: every commit is a non-empty run of frames whose last frame has
\* page_count > 0 and whose other frames have page_count = 0; the commits'
\* frames, one after the other, are the frame stream up to its last frame with
\* page_count > 0; the frames after that one are in no commit.
C3_CommitsPartition ==
    commits.done =>
        LET fs == WalFrames(file)
            last == LastCommitting(fs)
        IN  /\ \A c \in 1..Len(commits.val) :
                  LET run == commits.val[c].frames
                  IN  /\ run # <<>>
                      /\ run[Len(run)].header.page_count > 0
                      /\ \A i \in 1..(Len(run) - 1) : run[i].header.page_count = 0
            /\ Concat(commits.val, 1) = SubSeq(fs, 1, last)
            /\ \A i \in (last + 1)..Len(fs) :
                  \A c \in 1..Len(commits.val) :
                      \A k \in 1..Len(commits.val[c].frames) :
                          commits.val[c].frames[k] # fs[i]
            /\ commits.leftover = Len(fs) - last

\* The commits were computed for an image with a commit of several frames and
\* non-committing frames after the last commit.
C3_Witness ==
    /\ commits.done
    /\ \E c \in 1..Len(commits.val) : Len(commits.val[c].frames) >= 2
    /\ commits.leftover > 0

\* the number of leading frame records of the image whose page is whole
RECURSIVE WholeFrom(_, _)
WholeFrom(f, k) ==
    IF k > Len(f.frames) THEN 0
    ELSE IF Len(f.frames[k].data) < f.hdr.page_size THEN 0
    ELSE 1 + WholeFrom(f, k + 1)

\* C4: frames() yields, in file order, exactly the frames whose 24-byte header
\* and page_size bytes of page data are both wholly present in the file: it
\* stops at the first frame whose header or page is cut short and does not
\* yield that frame.
C4_FramesAreWhole ==
    listed.done =>
        /\ Len(listed.frames) = WholeFrom(file, 1)
        /\ \A i \in 1..Len(listed.frames) :
              /\ listed.frames[i].header = FrameHeader(file.frames[i])
              /\ Len(listed.data[i]) = file.hdr.page_size

\* C5 as the specification states it: validate_salt() holds for every frame
\* of every commit.
C5_AllCommitFramesSalted ==
    salted.done => salted.result

\* C5, as the code has it: WAL.commits groups the frames whatever their salts,
\* so a commit can hold frames of an earlier generation of the WAL; for a
\* frame of a commit validate_salt() holds exactly when the frame's salt1 and
\* salt2 both equal those of the WAL header.
C5_SaltCheckedNotFiltered ==
    /\ salted.done =>
          LET fr == commits.val[salted.commit].frames[salted.index]
          IN  salted.result <=>
                  (fr.header.salt1 = file.hdr.salt1 /\ fr.header.salt2 = file.hdr.salt2)
    /\ commits.done =>
          Len(Concat(commits.val, 1)) + commits.leftover = Len(file.frames)

\* validate_salt() was called on a frame of a commit whose salt1 is not the
\* header's and whose salt2 is.
C5_Witness ==
    /\ salted.done
    /\ ~salted.result
    /\ LET fr == commits.val[salted.commit].frames[salted.index]
       IN  fr.header.salt1 # file.hdr.salt1 /\ fr.header.salt2 = file.hdr.salt2

-----------------------------------------------------------------------------
(* Page lookup in the commits and checkpoints of a WAL.                    *)

LookupPages == {1, 2}
\* the pages looked up: those of the frames, and one no frame holds
AskedPages == LookupPages \cup {3}

LookupRecs ==
    {FrameRec(pn, pc, salt, ZeroWord, ZeroWord, Zeros(PageSize)) :
        pn \in LookupPages, pc \in PageCounts, salt \in {<<1, 1>>, <<2, 1>>}}

InitLookup ==
    /\ file \in {Image(GroupingHeader, fs, 0) :
                    fs \in UNION {RecSeqs(LookupRecs, n) : n \in 0..MaxFrames}}
    /\ dbPageSize = PageSize /\ src = "handle" /\ wal = OpenWal(">") /\ fh = OpenFh
    /\ closes = NoCloses /\ listed = NotListed /\ commits = NotCached
    /\ checkpoints = NotComputed /\ lookup = NoLookup /\ salted = NoSalted /\ vc = NoVc
    /\ cs = NoCs

\* the outcome of `page in coll`, coll[page] and coll.get(page)
LookupIn(kind, index, coll, page) ==
    [done |-> TRUE, kind |-> kind, index |-> index, page |-> page,
     contains |-> Contains(coll, page), getitem |-> GetItem(coll, page),
     get |-> Get(coll, page)]

\* a page lookup in one of wal.commits
LookupInCommit ==
    /\ commits.done
    /\ \E c \in 1..Len(commits.val), page \in AskedPages :
          lookup' = LookupIn("commit", c, commits.val[c], page)
    /\ UNCHANGED <<file, dbPageSize, src, wal, fh, closes, listed, commits, checkpoints,
                   salted, vc, cs>>

\* a page lookup in one of wal.checkpoints
LookupInCheckpoint ==
    /\ checkpoints.done
    /\ \E c \in 1..Len(checkpoints.val), page \in AskedPages :
          lookup' = LookupIn("checkpoint", c, checkpoints.val[c], page)
    /\ UNCHANGED <<file, dbPageSize, src, wal, fh, closes, listed, commits, checkpoints,
                   salted, vc, cs>>

NextLookup == Commits \/ Checkpoints \/ LookupInCommit \/ LookupInCheckpoint

SpecLookup == InitLookup /\ [][NextLookup]_vars

\* the collection the last lookup was made in
LookedIn ==
    IF lookup.kind = "commit" THEN commits.val[lookup.index]
    ELSE checkpoints.val[lookup.index]

\* C10: `p in collection` holds exactly when a frame of the collection has
\* page_number = p; then collection[p] and collection.get(p) are the last such
\* frame in the collection's frame order; otherwise get(p) is the default.
C10_PageLookup ==
    lookup.done =>
        LET frames == LookedIn.frames
            hits == {i \in 1..Len(frames) : frames[i].header.page_number = lookup.page}
        IN  /\ lookup.contains <=> hits # {}
            /\ hits # {} =>
                  LET last == CHOOSE i \in hits : \A j \in hits : j <= i
                  IN  /\ lookup.getitem.kind = "frame"
                      /\ lookup.getitem.frame = frames[last]
                      /\ lookup.get.kind = "frame"
                      /\ lookup.get.frame = frames[last]
            /\ hits = {} => lookup.get.kind = "default"

\* A page was looked up in a collection that holds two frames of that page.
C10_Witness ==
    /\ lookup.done
    /\ \E i \in 1..Len(LookedIn.frames) : \E j \in 1..Len(LookedIn.frames) :
          /\ i < j
          /\ LookedIn.frames[i].header.page_number = lookup.page
          /\ LookedIn.frames[j].header.page_number = lookup.page
          /\ LookedIn.frames[i] # LookedIn.frames[j]
    /\ lookup.contains

-----------------------------------------------------------------------------
(* Properties of the checksum routine.                                     *)

\* r = (a + b + c) mod 2^32, stated on the 16-bit halves with the two carries
SumMod32(a, b, c, r) ==
    /\ IsWord(r)
    /\ \E c1 \in 0..2, c2 \in 0..2 :
          /\ a.lo + b.lo + c.lo = r.lo + c1 * Half
          /\ a.hi + b.hi + c.hi + c1 = r.hi + c2 * Half

\* the i-th unsigned 32-bit word of a buffer (i from 0) in the given byte order
WordOf(buf, i, endian) ==
    LET msb == IF endian = ">"
               THEN <<buf[4 * i + 1], buf[4 * i + 2], buf[4 * i + 3], buf[4 * i + 4]>>
               ELSE <<buf[4 * i + 4], buf[4 * i + 3], buf[4 * i + 2], buf[4 * i + 1]>>
    IN  Word(msb[1] * 256 + msb[2], msb[3] * 256 + msb[4])

\* the outcome of the routine on the first k word pairs of the input
AfterPairs(k) ==
    IF 8 * k = Len(cs.buf) THEN cs.out
    ELSE calculate_checksum(PyBytes(SubSeq(cs.buf, 1, 8 * k)), PyTuple(cs.s0, cs.s1),
                            cs.endian)

\* the routine returned a pair in [0, 2^32) that results from the seed by the
\* step s0 = (s0 + arr[i] + s1) mod 2^32, s1 = (s1 + arr[i+1] + s0) mod 2^32
\* for i = 0, 2, 4, ...; a zero input with seed (0, 0) gives (0, 0)
ChecksumAsSpecified ==
    /\ cs.out.kind = "ok"
    /\ IsWord(cs.out.s0) /\ IsWord(cs.out.s1)
    /\ Len(cs.buf) = 0 => (cs.out.s0 = cs.s0 /\ cs.out.s1 = cs.s1)
    /\ \A k \in 1..(Len(cs.buf) \div 8) :
          LET before == IF k = 1 THEN Returned(cs.s0, cs.s1) ELSE AfterPairs(k - 1)
              after == AfterPairs(k)
          IN  /\ before.kind = "ok" /\ after.kind = "ok"
              /\ SumMod32(before.s0, WordOf(cs.buf, 2 * k - 2, cs.endian), before.s1,
                          after.s0)
              /\ SumMod32(before.s1, WordOf(cs.buf, 2 * k - 1, cs.endian), after.s0,
                          after.s1)
    /\ ((\A i \in 1..Len(cs.buf) : cs.buf[i] = 0) /\ cs.s0 = ZeroWord /\ cs.s1 = ZeroWord)
          => (cs.out.s0 = ZeroWord /\ cs.out.s1 = ZeroWord)

\* C7 as the specification states it: for every seed in range and every
\* buffer whose length is divisible by 4 the routine returns the pair the
\* recurrence gives.
C7_ChecksumLengthDiv4 ==
    (cs.done /\ Len(cs.buf) % 4 = 0) => ChecksumAsSpecified

\* C7, as the code has it: the same for every buffer whose length is
\* divisible by 8, the words being consumed in pairs.
C7_ChecksumLengthDiv8 ==
    (cs.done /\ Len(cs.buf) % 8 = 0) => ChecksumAsSpecified

\* The routine ran on two word pairs of which the first sum overflows 2^32.
C7_Witness ==
    /\ cs.done
    /\ Len(cs.buf) = 16
    /\ cs.s0 = Word(65535, 65535)
    /\ cs.buf[1] = 255
    /\ cs.endian = "<"
    /\ cs.out.kind = "ok"

-----------------------------------------------------------------------------
(* Images whose frames carry checksums, and their validation.              *)

ChecksumPages == {Zeros(PageSize), [i \in 1..PageSize |-> IF i % 2 = 1 THEN 255 ELSE i]}

\* the checksum routine fed `bytes` from the seed of an earlier outcome
Feed(bytes, seed, endian) ==
    calculate_checksum(PyBytes(bytes), PyTuple(seed.s0, seed.s1), endian)

\* a word that differs from w
Other(w) == Word(w.hi, (w.lo + 1) % Half)

\* the image grown by a frame whose stored checksum is the running checksum
\* (good) or differs from it
Sealed(p, endian, pn, data, good) ==
    LET head == PackBE(ToWord(pn)) \o PackBE(ToWord(2))
        run == Feed(data, Feed(head, p.seed, endian), endian)
        rec == FrameRec(pn, 2, <<2, 1>>,
                        IF good THEN run.s0 ELSE Other(run.s0), run.s1, data)
    IN  [fs |-> Append(p.fs, rec), seed |-> run]

RECURSIVE SealedSeqs(_, _, _)
SealedSeqs(hdr, endian, n) ==
    IF n = 0
    THEN {[fs |-> <<>>,
           seed |-> Feed(SubSeq(WalHeaderBytes(hdr), 1, HeaderSeedBytes),
                         Returned(ZeroWord, ZeroWord), endian)]}
    ELSE {Sealed(p, endian, pn, data, good) :
             p \in SealedSeqs(hdr, endian, n - 1),
             pn \in LookupPages, data \in ChecksumPages, good \in BOOLEAN}

EndianOf(magic) == IF magic = WAL_HEADER_MAGIC_LE THEN "<" ELSE ">"

InitValidate ==
    /\ \E magic \in WAL_HEADER_MAGIC, n \in 0..MaxFrames :
          LET hdr == [GroupingHeader EXCEPT !.magic = magic]
          IN  /\ \E p \in SealedSeqs(hdr, EndianOf(magic), n) :
                     file = Image(hdr, p.fs, 0)
              /\ wal = WalInit("handle", file, OpenFh)
    /\ dbPageSize = PageSize /\ src = "handle" /\ fh = OpenFh
    /\ closes = NoCloses /\ listed = NotListed /\ commits = NotCached
    /\ checkpoints = NotComputed /\ lookup = NoLookup /\ salted = NoSalted /\ vc = NoVc
    /\ cs = NoCs

\* frame.validate_checksum() on a frame of wal.frames()
ValidateChecksum ==
    /\ \E k \in 1..Len(WalFrames(file)) :
          LET r == validate_checksum(file, wal.checksum_endian, WalFrames(file)[k])
          IN  vc' = [done |-> TRUE, index |-> k, kind |-> r.kind, result |-> r.result]
    /\ UNCHANGED <<file, dbPageSize, src, wal, fh, closes, listed, commits, checkpoints,
                   lookup, salted, cs>>

NextValidate == ValidateChecksum

SpecValidate == InitValidate /\ [][NextValidate]_vars

RECURSIVE RunningChecksum(_, _)
\* the running checksum seeded with (0, 0), fed the first 24 bytes of the WAL
\* header and then, for the frames up to the k-th, the first 8 bytes of the
\* frame header and the page data
RunningChecksum(f, k) ==
    IF k = 0
    THEN Feed(SubSeq(WalHeaderBytes(f.hdr), 1, 24), Returned(ZeroWord, ZeroWord),
              EndianOf(f.hdr.magic))
    ELSE Feed(f.frames[k].data,
              Feed(SubSeq(FrameHeaderBytes(f.frames[k]), 1, 8), RunningChecksum(f, k - 1),
                   EndianOf(f.hdr.magic)),
              EndianOf(f.hdr.magic))

\* C6: validate_checksum() on the k-th frame returns true exactly when the
\* running checksum up to and including that frame equals the checksum1 and
\* checksum2 stored in that frame's header.
C6_ChecksumValidation ==
    vc.done =>
        LET run == RunningChecksum(file, vc.index)
        IN  (vc.kind = "ok" /\ vc.result) <=>
                /\ run.s0 = file.frames[vc.index].checksum1
                /\ run.s1 = file.frames[vc.index].checksum2

-----------------------------------------------------------------------------
(* The life of a WAL: construction, use and close.                         *)

MagicValues == WAL_HEADER_MAGIC \cup {WAL_HEADER_MAGIC_BE + 1}
PageSizes == {PageSize, 2 * PageSize}

LifeImages ==
    {Image([magic |-> m, page_size |-> ps, salt1 |-> 2, salt2 |-> 1],
           [i \in 1..n |-> FrameRec(1, 2, <<2, 1>>, ZeroWord, ZeroWord, Zeros(ps))], 0) :
        m \in MagicValues, ps \in PageSizes, n \in 0..1}

InitLife ==
    /\ file \in LifeImages
    /\ dbPageSize \in PageSizes
    /\ src \in {"path", "handle"}
    /\ wal = NoWal
    /\ fh = (IF src = "handle" THEN OpenFh ELSE NoFh)
    /\ closes = NoCloses /\ listed = NotListed /\ commits = NotCached
    /\ checkpoints = NotComputed /\ lookup = NoLookup /\ salted = NoSalted /\ vc = NoVc
    /\ cs = NoCs

\* WAL(fh) for a path or a borrowed binary handle
Construct ==
    /\ wal.state = "new"
    /\ fh' = (IF src = "path" THEN FileOpen(fh) ELSE fh)
    /\ wal' = WalInit(src, file, fh')
    /\ UNCHANGED <<file, dbPageSize, src, closes, listed, commits, checkpoints, lookup,
                   salted, vc, cs>>

\* wal.close()
Close ==
    /\ wal.state = "ok"
    /\ closes.calls < MaxCloses
    /\ fh' = WalClose(wal, fh)
    /\ closes' = [calls |-> closes.calls + 1,
                  byWal |-> closes.byWal + (IF ClosesHandle(wal) THEN 1 ELSE 0),
                  changedAgain |-> closes.changedAgain \/ (closes.calls >= 1 /\ fh' # fh)]
    /\ UNCHANGED <<file, dbPageSize, src, wal, listed, commits, checkpoints, lookup,
                   salted, vc, cs>>

\* the owner of a borrowed handle closes it itself
OwnerClose ==
    /\ src = "handle"
    /\ wal.state = "ok"
    /\ ~fh.closed
    /\ fh' = FileClose(fh)
    /\ UNCHANGED <<file, dbPageSize, src, wal, closes, listed, commits, checkpoints,
                   lookup, salted, vc, cs>>

NextLife == Construct \/ Close \/ ListFrames \/ OwnerClose

SpecLife == InitLife /\ [][NextLife]_vars

\* C8: construction succeeds only if the magic is 0x377F0682 or 0x377F0683 and
\* the page size of the WAL header equals the database's, and fails with the
\* InvalidWAL error otherwise; on success checksum_endian is little-endian
\* exactly for the magic 0x377F0682 and big-endian exactly for 0x377F0683.
C8_HeaderValidated ==
    wal.state # "new" =>
        /\ wal.state = "ok" <=>
              (file.hdr.magic \in {931071618, 931071619}
               /\ file.hdr.page_size = dbPageSize)
        /\ wal.state # "ok" => wal.state = "InvalidWAL"
        /\ wal.state = "ok" =>
              /\ wal.checksum_endian = "<" <=> file.hdr.magic = 931071618
              /\ wal.checksum_endian = ">" <=> file.hdr.magic = 931071619

\* C9: the WAL never closes a handle it was lent; a WAL built from a path has
\* its file closed once close() was called; a close() after the first one
\* changes nothing.
C9_HandleOwnership ==
    /\ src = "handle" => closes.byWal = 0
    /\ (src = "path" /\ closes.calls >= 1) => fh.closed
    /\ ~closes.changedAgain

\* A WAL built from a path was closed twice and then asked for its frames.
C9_Witness ==
    /\ src = "path"
    /\ closes.calls >= 2
    /\ fh.closed
    /\ listed.done /\ listed.err = "ValueError"

=============================================================================
